---- MODULE Spec2Model ----
(***************************************************************************)
(* The two LangGraph workflows of the repository as one state machine.     *)
(*                                                                         *)
(*   router_first : proj1-adaptive-rag (AdaptiveRAGWorkflow)               *)
(*   agent_first  : proj2-agentiic-rag (AgenticRAGSystem / WorkflowBuilder)*)
(*                                                                         *)
(* One behaviour is one run: run(question) resp. query(question).  A step  *)
(* of the model is one node execution together with the edge function that *)
(* LangGraph evaluates right after it; the answers of the external         *)
(* collaborators (retriever, web search, LLM chains) are the inputs, drawn *)
(* from small sets.                                                        *)
(***************************************************************************)
EXTENDS Integers, Sequences, FiniteSets, TLC

VARIABLES
    topology,      \* which compiled graph the run executes
    state,         \* the graph state: GraphState resp. AgentState
    pc,            \* the node the graph executes next; "START" and "END" are LangGraph's
    trace,         \* the node names executed so far, in order
    calls,         \* the collaborator calls made by the latest step, in order
    final_state,   \* run(): the loop variable final_state
    final_answer,  \* query(): the loop variable final_answer
    returned,      \* the value handed back to the caller, once the run has returned
    generated,     \* history: what the RAG chain answered in the latest generate step
    fault,         \* the exception that has left run() resp. query(), if any
    agent_nodes_tools,  \* agent_nodes.tools, the attribute of the module-level AgentNodes
    other,         \* a second query() on the same compiled graph, if there is one
    execution_trace,  \* run_with_details(): the list of trace entries; None in run(), query()
    system,        \* agent-first, the AgenticRAGSystem object: its graph, its
                   \* initialized flag and the managers it refers to; router-first,
                   \* the AdaptiveRAGWorkflow object: its compiled application
    inputs,        \* what the operation passes to the stream, made of its question
    batch          \* batch_query(): its argument and its local variables

vars == <<topology, state, pc, trace, calls, final_state, final_answer, returned, generated,
          fault, agent_nodes_tools, other, execution_trace, system, inputs, batch>>

(***************************************************************************)
(* Bounds of the model                                                     *)
(***************************************************************************)
\* the step budget the specification talks about (run(question, maxSteps, ...))
MaxSteps == 6
\* the model stops a run that has executed this many nodes
MaxTrace == 8
\* the retriever returns at most this many documents
MaxDocs == 2
\* a second run on the same graph is followed for this many nodes
MaxOther == 3
\* iteration counters and iteration limits range up to this number
MaxIterations == 5

(***************************************************************************)
(* Program constants                                                       *)
(***************************************************************************)
MAX_ITERATIONS == 3
\* the default of should_continue_retrieval's max_iterations parameter
max_iterations_default == 3

\* Python values whose type varies at run time carry their type
None == [type |-> "NoneType"]
Str(c) == [type |-> "str", content |-> c]
List(items) == [type |-> "list", items |-> items]
\* the placeholder answer of query() and run_with_details() (a Chinese sentence
\* in the source: "no answer could be generated")
NoAnswer == "no_answer_generated"
\* Python truthiness of None, a str or a list
Truthy(v) ==
    CASE v.type = "NoneType" -> FALSE
      [] v.type = "str" -> v.content # ""
      [] v.type = "list" -> v.items # <<>>
      [] OTHER -> TRUE

\* the question the caller asks, and the texts a question can be rewritten to
UserQuestions == {"q0"}
Questions == UserQuestions \cup {"q1"}
\* a Document is a record with its page_content
Document(c) == [type |-> "Document", page_content |-> c]
Documents == {Document("d1"), Document("d2")}
WebContents == {"w1"}
\* the string output of a RAG chain; the empty string is a possible LLM output
Generations == {"", "a1", "a2"}
\* binary_score is declared as str: 'yes', 'no', or anything else the LLM produces
Scores == {"yes", "no", "maybe"}
Datasources == {"vectorstore", "web_search"}
\* the formatted text the retriever tool hands back to the agent
ToolTexts == {"t1", "t2"}

SeqsUpTo(S, n) == UNION {[1..k -> S] : k \in 0..n}

Call(c, in, out) == [collab |-> c, input |-> in, output |-> out]

Last(s) == s[Len(s)]

(***************************************************************************)
(* State update.  GraphState declares plain fields: a node's return value  *)
(* overwrites the fields it names.  AgentState.messages is annotated with  *)
(* add_messages: the returned messages are appended.                       *)
(***************************************************************************)
\* the merge as it would be if the returned dictionary became the state
MergeReplacesState(s, patch) == patch

Merge(s, patch) ==
    [k \in DOMAIN s \cup DOMAIN patch |-> IF k \in DOMAIN patch THEN patch[k] ELSE s[k]]

\* add_messages turns a bare string into a human message
HumanMessage(c) == [type |-> "human", content |-> c, tool_calls |-> <<>>]
AIMessage(c, tc) == [type |-> "ai", content |-> c, tool_calls |-> tc]
ToolMessage(c) == [type |-> "tool", content |-> c, tool_calls |-> <<>>]

Coerce(m) == IF m.type = "str" THEN HumanMessage(m.content) ELSE m

\* the reducer as it would be if the returned messages replaced the list
add_messages_overwrites(left, right) == [i \in 1..Len(right) |-> Coerce(right[i])]

add_messages(left, right) == left \o [i \in 1..Len(right) |-> Coerce(right[i])]

AgentState(s, patch) == [messages |-> add_messages(s.messages, patch.messages)]

(***************************************************************************)
(* proj1-adaptive-rag: the nodes (graph_nodes.py).  Each operator is the   *)
(* dictionary the node returns, given the state and what its collaborator  *)
(* answered.                                                               *)
(***************************************************************************)
\* retrieve as it would be if it put the first question back into the state
GraphNodes_retrieve_resets_question(s, documents) ==
    [documents |-> documents, question |-> "q0"]

GraphNodes_retrieve(s, documents) ==
    [documents |-> documents, question |-> s.question]

\* generate as it would be if it dropped the documents it has read
GraphNodes_generate_drops_documents(s, generation) ==
    [documents |-> List(<<>>), question |-> s.question, generation |-> generation]

\* generate as it would be if it kept an answer the state already holds
GraphNodes_generate_keeps_generation(s, generation) ==
    [documents |-> s.documents, question |-> s.question,
     generation |-> IF "generation" \in DOMAIN s THEN s.generation ELSE generation]

GraphNodes_generate(s, generation) ==
    [documents |-> s.documents, question |-> s.question, generation |-> generation]

\* filtered_docs: the documents graded 'yes', in order
RECURSIVE Filter(_, _)
Filter(documents, grades) ==
    IF documents = <<>> THEN <<>>
    ELSE (IF Head(grades) = "yes" THEN <<Head(documents)>> ELSE <<>>)
            \o Filter(Tail(documents), Tail(grades))

\* grade_documents as it would be if it kept the documents whatever their grade
GraphNodes_grade_documents_keeps_all(s, grades) ==
    [documents |-> s.documents, question |-> s.question]

GraphNodes_grade_documents(s, grades) ==
    [documents |-> List(Filter(s.documents.items, grades)), question |-> s.question]

\* transform_query as it would be if it returned the question it was given
GraphNodes_transform_query_keeps_question(s, better_question) ==
    [documents |-> s.documents, question |-> s.question]

GraphNodes_transform_query(s, better_question) ==
    [documents |-> s.documents, question |-> better_question]

GraphNodes_web_search(s, web_results) ==
    [documents |-> web_results, question |-> s.question]

(***************************************************************************)
(* proj1-adaptive-rag: the edge functions (graph_edges.py)                 *)
(***************************************************************************)
route_question(datasource) ==
    IF datasource = "web_search" THEN "web_search"
    ELSE IF datasource = "vectorstore" THEN "vectorstore"
    ELSE "None"

\* the decision as it would be if it tested for the field instead of its content
decide_to_generate_tests_presence(s) ==
    IF "documents" \notin DOMAIN s THEN "transform_query" ELSE "generate"

\* "not filtered_documents": an empty list, or no documents at all
decide_to_generate(s) ==
    LET filtered_documents == IF "documents" \in DOMAIN s THEN s.documents ELSE List(<<>>)
    IN  IF ~Truthy(filtered_documents) THEN "transform_query" ELSE "generate"

\* the decision as it would be if a grounded generation were accepted whatever
\* the answer grader said
grade_generation_ignores_answer(hallucination, answer) ==
    IF hallucination = "yes" THEN "useful" ELSE "not supported"

\* the decision as it would be with the two outcomes of the answer grader swapped
grade_generation_swapped(hallucination, answer) ==
    IF hallucination = "yes"
    THEN IF answer = "yes" THEN "not useful" ELSE "useful"
    ELSE "not supported"

\* the decision as it would be if it named the ungrounded case by a label the
\* table does not have
grade_generation_unmapped_label(hallucination, answer) ==
    IF hallucination = "yes"
    THEN IF answer = "yes" THEN "useful" ELSE "not useful"
    ELSE "hallucinated"

\* hallucination: the hallucination grader's binary_score; answer: the answer
\* grader's, consulted in the 'yes' branch only
grade_generation_v_documents_and_question(hallucination, answer) ==
    IF hallucination = "yes"
    THEN IF answer = "yes" THEN "useful" ELSE "not useful"
    ELSE "not supported"

\* a limit that lets the counter reach it
should_continue_retrieval_strict(s, max_iterations) ==
    LET iterations == IF "iterations" \in DOMAIN s THEN s.iterations ELSE 0
    IN  IF iterations > max_iterations THEN "stop" ELSE "continue"

should_continue_retrieval(s, max_iterations) ==
    LET iterations == IF "iterations" \in DOMAIN s THEN s.iterations ELSE 0
    IN  IF iterations >= max_iterations THEN "stop" ELSE "continue"

(***************************************************************************)
(* proj1-adaptive-rag: the transition table of build_graph                 *)
(***************************************************************************)
\* the entry edges as they would be if vectorstore questions went straight to
\* generate
StartEdgesSkipRetrieve == [web_search |-> "web_search", vectorstore |-> "generate"]

StartEdges == [web_search |-> "web_search", vectorstore |-> "retrieve"]

GradeDocumentsEdges == [transform_query |-> "transform_query", generate |-> "generate"]

\* the table as it would be if the "not supported" retry consulted
\* should_continue_retrieval on a count of the steps run so far
GenerateEdgesLimited ==
    [l \in {"not supported", "useful", "not useful"} |->
        CASE l = "not supported" ->
                IF should_continue_retrieval([iterations |-> Len(trace)], MAX_ITERATIONS) = "stop"
                THEN "END" ELSE "generate"
          [] l = "useful" -> "END"
          [] l = "not useful" -> "transform_query"]

\* the table as it would be if "not useful" went straight back to retrieve
GenerateEdgesSkipRewrite ==
    [l \in {"not supported", "useful", "not useful"} |->
        CASE l = "not supported" -> "generate"
          [] l = "useful" -> "END"
          [] l = "not useful" -> "retrieve"]

\* the table as it would be if "not useful" sent the run to the web search
GenerateEdgesSearchAgain ==
    [l \in {"not supported", "useful", "not useful"} |->
        CASE l = "not supported" -> "generate"
          [] l = "useful" -> "END"
          [] l = "not useful" -> "web_search"]

GenerateEdges ==
    [l \in {"not supported", "useful", "not useful"} |->
        CASE l = "not supported" -> "generate"
          [] l = "useful" -> "END"
          [] l = "not useful" -> "transform_query"]

\* the nodes added by build_graph
RouterFirstNodes == {"web_search", "retrieve", "grade_documents", "generate", "transform_query"}

(***************************************************************************)
(* proj2-agentiic-rag: the nodes (nodes.py) and the transition table of    *)
(* build_workflow                                                          *)
(***************************************************************************)
\* what the agent model may answer: a call of the retriever tool, or a plain answer
AgentResponses ==
    {AIMessage("", <<q>>) : q \in Questions} \cup {AIMessage(c, <<>>) : c \in Generations}

\* tools_manager.tools, the list filled by initialize()
ToolsManager_get_tools == List(<<"retriever_tool">>)

\* get_tools of the module-level AgentNodes: the attribute after the call
AgentNodes_get_tools(tools) == IF tools = None THEN ToolsManager_get_tools ELSE tools

AgentNodes_agent(s, response) == [messages |-> <<response>>]

\* the prebuilt ToolNode: runs the tool call of the newest message
ToolNode(s, text) == [messages |-> <<ToolMessage(text)>>]

AgentNodes_grade_documents(score) == IF score = "yes" THEN "generate" ELSE "rewrite"

\* the question as it would be if the nodes read it from the newest message
QuestionFromNewestMessage(s) == Last(s.messages).content

\* question = messages[0].content, in grade_documents, rewrite and generate
Question(s) == s.messages[1].content

AgentNodes_rewrite(s, response) == [messages |-> <<response>>]

AgentNodes_generate(s, response) == [messages |-> <<Str(response)>>]

\* the condition as it would be if a tool request anywhere in the transcript counted
tools_condition_any_message(s) ==
    IF \E i \in 1..Len(s.messages) : s.messages[i].tool_calls # <<>> THEN "tools" ELSE "END"

\* the prebuilt tools_condition: does the newest message request a tool?
tools_condition(s) ==
    LET ai_message == Last(s.messages)
    IN  IF ai_message.type = "ai" /\ ai_message.tool_calls # <<>> THEN "tools" ELSE "END"

\* the table as it would be if a tool request went to generate
AgentEdgesSkipRetrieve == [tools |-> "generate", END |-> "END"]

AgentEdges == [tools |-> "retrieve", END |-> "END"]

\* the nodes added by build_workflow
AgentFirstNodes == {"agent", "retrieve", "rewrite", "generate"}

\* no batch_query() is in progress
NoBatch == [questions |-> <<>>, attempted |-> <<>>, results |-> <<>>, pc |-> "none"]

(***************************************************************************)
(* One run                                                                 *)
(***************************************************************************)
\* AgenticRAGSystem after __init__, and after initialize(); the router-first
\* main() compiles its workflow before the first run
\* AdaptiveRAGWorkflow after __init__: no compiled application.  compiled is
\* history: how often build_graph() and workflow.compile() have been executed;
\* called is history: the calls of compile(), run() and run_with_details()
\* counted where a sequence of calls is followed
CompiledStateGraph(n) == [type |-> "CompiledStateGraph", id |-> n]
AdaptiveRAGWorkflow == [app |-> None, compiled |-> 0, called |-> 0]

\* compile() as it would be without the test of self.app
AdaptiveRAGWorkflow_compile_again(w) ==
    [w EXCEPT !.app = CompiledStateGraph(w.compiled + 1), !.compiled = w.compiled + 1]

AdaptiveRAGWorkflow_compile(w) ==
    IF w.app = None
    THEN [w EXCEPT !.app = CompiledStateGraph(w.compiled + 1), !.compiled = w.compiled + 1]
    ELSE w

\* the workflow object when a run starts
Compiled == AdaptiveRAGWorkflow_compile(AdaptiveRAGWorkflow)

\* vector_store and tools are the module-level managers the object refers to
NotInitialized ==
    [graph |-> None, initialized |-> FALSE,
     vector_store |-> [retriever |-> None],
     tools |-> [tools |-> List(<<>>)]]
Initialized ==
    [graph |-> Str("CompiledStateGraph"), initialized |-> TRUE,
     vector_store |-> [retriever |-> Str("VectorStoreRetriever")],
     tools |-> [tools |-> ToolsManager_get_tools]]

\* no second run
NoRun == [pc |-> "none", state |-> [messages |-> <<>>], steps |-> 0, final_answer |-> None]

Init ==
    /\ topology \in {"router_first", "agent_first"}
    /\ \E question \in UserQuestions :
          inputs = IF topology = "router_first"
                   THEN [question |-> question]
                   ELSE [messages |-> <<HumanMessage(question)>>]
    /\ state = inputs
    /\ pc = "START"
    /\ trace = <<>>
    /\ calls = <<>>
    /\ final_state = None
    /\ final_answer = None
    /\ returned = None
    /\ generated = None
    /\ fault = None
    /\ batch = NoBatch
    /\ agent_nodes_tools = None
    /\ other = NoRun
    /\ execution_trace = None
    /\ system \in IF topology = "router_first" THEN {Compiled}
                  ELSE {Initialized, NotInitialized}

RouterFirst(node) == topology = "router_first" /\ pc = node /\ Len(trace) < MaxTrace
AgentFirst(node) == topology = "agent_first" /\ pc = node /\ Len(trace) < MaxTrace

\* run_with_details(): the entry recorded for one output of the stream
trace_entry(node_name, node_state) ==
    [node |-> node_name,
     question |-> IF "question" \in DOMAIN node_state THEN Str(node_state.question) ELSE None,
     has_documents |-> "documents" \in DOMAIN node_state /\ Truthy(node_state.documents),
     has_generation |-> "generation" \in DOMAIN node_state
                           /\ Truthy(Str(node_state.generation))]

\* execution_trace.append as it would be if the list held the latest entry only
TraceKeepsLatest(t, entry) == IF t = None THEN None ELSE List(<<entry>>)

\* execution_trace.append(trace_entry); run() and query() keep no such list
TraceAppend(t, entry) == IF t = None THEN None ELSE List(Append(t.items, entry))

\* run_with_details() prints len(node_state.get('documents', [])) when the
\* documents are truthy: a Document has no len()
PrintRaises(node_state) ==
    /\ "documents" \in DOMAIN node_state
    /\ Truthy(node_state.documents)
    /\ node_state.documents.type # "list"

\* run(): one output of app.stream(inputs), the node's name and the dictionary
\* it returned; run_with_details(): the same, and the entry of the trace
RunOutput(key, value, next, cs) ==
    /\ state' = Merge(state, value)
    /\ trace' = Append(trace, key)
    /\ calls' = cs
    /\ generated' = IF key = "generate" THEN Str(cs[1].output) ELSE generated
    /\ execution_trace' = TraceAppend(execution_trace, trace_entry(key, value))
    /\ IF execution_trace # None /\ PrintRaises(value)
       THEN /\ pc' = "raised"
            /\ fault' = [type |-> "TypeError", collab |-> "len", node |-> key]
            /\ final_state' = final_state
       ELSE /\ pc' = next
            /\ fault' = fault
            /\ final_state' = value
    /\ UNCHANGED <<topology, final_answer, returned, agent_nodes_tools, other, system, inputs, batch>>

\* query(): one output of graph.stream(inputs)
QueryOutput(key, value, next, cs) ==
    /\ state' = AgentState(state, value)
    /\ pc' = next
    /\ trace' = Append(trace, key)
    /\ calls' = cs
    /\ final_answer' = IF key = "generate" /\ "messages" \in DOMAIN value
                       THEN value.messages[1] ELSE final_answer
    /\ generated' = IF key = "generate" THEN Str(cs[1].output) ELSE generated
    /\ agent_nodes_tools' = IF key = "agent" THEN AgentNodes_get_tools(agent_nodes_tools)
                            ELSE agent_nodes_tools
    /\ UNCHANGED <<topology, final_state, returned, fault, other,
                   execution_trace, system, inputs, batch>>

\* START: the conditional entry point, with a route classifier that answers
\* one of datasources
StartOn(datasources) ==
    /\ topology = "router_first" /\ pc = "START"
    /\ \E datasource \in datasources :
          /\ pc' = StartEdges[route_question(datasource)]
          /\ calls' = <<Call("question_router", state.question, datasource)>>
    /\ UNCHANGED <<topology, state, trace, final_state, final_answer, returned, generated,
                   fault, agent_nodes_tools, other,
                   execution_trace, system, inputs, batch>>

Start == StartOn(Datasources)

WebSearch ==
    /\ RouterFirst("web_search")
    /\ \E c \in WebContents :
          RunOutput("web_search", GraphNodes_web_search(state, Document(c)), "generate",
                    <<Call("web_search", state.question, Document(c))>>)

\* retrieve, with a retriever that returns one of lists
RetrieveOn(lists) ==
    /\ RouterFirst("retrieve")
    /\ \E documents \in lists :
          RunOutput("retrieve", GraphNodes_retrieve(state, List(documents)), "grade_documents",
                    <<Call("retriever", state.question, List(documents))>>)

Retrieve == RetrieveOn(SeqsUpTo(Documents, MaxDocs))

\* grade_documents, then the edge function decide_to_generate on the updated
\* state, with a relevance grader whose answers are one of gradings
GradeDocumentsOn(gradings) ==
    /\ RouterFirst("grade_documents")
    /\ LET documents == state.documents.items
       IN  \E grades \in [1..Len(documents) -> Scores] \cap gradings :
              LET value == GraphNodes_grade_documents(state, grades)
              IN  RunOutput("grade_documents", value,
                            GradeDocumentsEdges[decide_to_generate(Merge(state, value))],
                            [i \in 1..Len(documents) |->
                                Call("retrieval_grader",
                                     <<state.question, documents[i].page_content>>, grades[i])])

GradeDocuments == GradeDocumentsOn(SeqsUpTo(Scores, MaxDocs))

TransformQuery ==
    /\ RouterFirst("transform_query")
    /\ \E better_question \in Questions :
          RunOutput("transform_query", GraphNodes_transform_query(state, better_question),
                    "retrieve",
                    <<Call("question_rewriter", state.question, better_question)>>)

\* generate, then the edge function grade_generation_v_documents_and_question on
\* the updated state, with a hallucination grader that answers one of
\* hallucinations and an answer grader that answers one of answers
GenerateOn(hallucinations, answers) ==
    /\ RouterFirst("generate")
    /\ \E generation \in Generations, hallucination \in hallucinations :
          \E answer \in IF hallucination = "yes" THEN answers ELSE {"not asked"} :
              LET value == GraphNodes_generate(state, generation)
                  s == Merge(state, value)
              IN  RunOutput("generate", value,
                      GenerateEdges[grade_generation_v_documents_and_question(hallucination, answer)],
                      <<Call("rag_chain", <<state.documents, state.question>>, generation),
                        Call("hallucination_grader", <<s.documents, s.generation>>, hallucination)>>
                      \o (IF hallucination = "yes"
                          THEN <<Call("answer_grader", <<s.question, s.generation>>, answer)>>
                          ELSE <<>>))

Generate == GenerateOn(Scores, Scores)

\* run(): the stream is exhausted, return final_state
Run ==
    /\ topology = "router_first" /\ pc = "END"
    /\ execution_trace = None
    /\ returned' = final_state
    /\ pc' = "returned"
    /\ UNCHANGED <<topology, state, trace, calls, final_state, final_answer, generated,
                   fault, agent_nodes_tools, other,
                   execution_trace, system, inputs, batch>>

\* query() as it would be without the test of the initialized flag
QueryUnchecked(sys) == "agent"

\* query(): "if not self.initialized: raise ValueError"
QueryChecked(sys) == IF ~sys.initialized THEN "raised" ELSE "START"

\* query() on a system that has not been initialized
QueryNotInitialized ==
    /\ topology = "agent_first" /\ pc = "START"
    /\ ~system.initialized
    /\ pc' = QueryChecked(system)
    /\ fault' = [type |-> "ValueError", collab |-> "query", node |-> pc]
    /\ UNCHANGED <<topology, state, trace, calls, final_state, final_answer, returned,
                   generated, agent_nodes_tools, other, execution_trace, system, inputs, batch>>

\* run_with_details(): the stream is exhausted, build and return the result
RunWithDetails ==
    /\ topology = "router_first" /\ pc = "END"
    /\ execution_trace # None
    /\ returned' = [question |-> inputs.question,
                    answer |-> IF "generation" \in DOMAIN final_state
                               THEN final_state.generation ELSE NoAnswer,
                    execution_trace |-> execution_trace,
                    final_state |-> final_state]
    /\ pc' = "returned"
    /\ UNCHANGED <<topology, state, trace, calls, final_state, final_answer, generated,
                   fault, agent_nodes_tools, other, execution_trace, system, inputs, batch>>

\* START -> agent
AgentStart ==
    /\ topology = "agent_first" /\ pc = "START"
    /\ system.initialized
    /\ pc' = "agent"
    /\ UNCHANGED <<topology, state, trace, calls, final_state, final_answer, returned,
                   generated, fault, agent_nodes_tools, other,
                   execution_trace, system, inputs, batch>>

Agent ==
    /\ AgentFirst("agent")
    /\ \E response \in AgentResponses :
          LET value == AgentNodes_agent(state, response)
          IN  QueryOutput("agent", value, AgentEdges[tools_condition(AgentState(state, value))],
                          <<Call("agent_model", state.messages, response)>>)

\* the retrieve ToolNode, then the edge function grade_documents on the updated state
AgentRetrieve ==
    /\ AgentFirst("retrieve")
    /\ \E text \in ToolTexts, score \in Scores :
          LET value == ToolNode(state, text)
              s == AgentState(state, value)
          IN  QueryOutput("retrieve", value, AgentNodes_grade_documents(score),
                          <<Call("retriever_tool", Last(state.messages).tool_calls, text),
                            Call("grader", <<Question(s), Last(s.messages).content>>,
                                 score)>>)

AgentRewrite ==
    /\ AgentFirst("rewrite")
    /\ \E content \in Questions :
          QueryOutput("rewrite", AgentNodes_rewrite(state, AIMessage(content, <<>>)), "agent",
                      <<Call("rewriter_model", Question(state),
                             AIMessage(content, <<>>))>>)

AgentGenerate ==
    /\ AgentFirst("generate")
    /\ \E response \in Generations :
          QueryOutput("generate", AgentNodes_generate(state, response), "END",
                      <<Call("rag_chain",
                             <<Last(state.messages).content, Question(state)>>,
                             response)>>)

\* query(): the stream is exhausted, return final_answer or the placeholder
Query ==
    /\ topology = "agent_first" /\ pc = "END"
    /\ returned' = IF Truthy(final_answer) THEN final_answer ELSE Str(NoAnswer)
    /\ pc' = "returned"
    /\ UNCHANGED <<topology, state, trace, calls, final_state, final_answer, generated,
                   fault, agent_nodes_tools, other,
                   execution_trace, system, inputs, batch>>

\* the collaborators that the step at the current node (the node and the edge
\* function after it) calls, each of which may raise.  The retriever tool runs
\* inside the prebuilt ToolNode, which is left to handle its errors.
Collaborators ==
    IF topology = "router_first"
    THEN CASE pc = "START" -> {"question_router"}
           [] pc = "web_search" -> {"web_search"}
           [] pc = "retrieve" -> {"retriever"}
           [] pc = "grade_documents" ->
                IF state.documents.items = <<>> THEN {} ELSE {"retrieval_grader"}
           [] pc = "transform_query" -> {"question_rewriter"}
           [] pc = "generate" -> {"rag_chain", "hallucination_grader", "answer_grader"}
           [] OTHER -> {}
    ELSE CASE pc = "agent" -> {"agent_model"}
           [] pc = "retrieve" -> {"grader"}
           [] pc = "rewrite" -> {"rewriter_model"}
           [] pc = "generate" -> {"hub", "rag_chain"}
           [] OTHER -> {}

\* where a run would be after an exception if the loop over the stream
\* started the failed step again
OnExceptionRetry(node) == node

\* the loop over the stream has no handler: the exception leaves run() / query()
OnException(node) == "raised"

\* a collaborator raises: the step yields no output, the stream raises
Raise ==
    /\ Len(trace) < MaxTrace
    /\ \E c \in Collaborators :
          /\ fault' = [type |-> "Exception", collab |-> c, node |-> pc]
          /\ pc' = OnException(pc)
    /\ UNCHANGED <<topology, state, trace, calls, final_state, final_answer, returned,
                   generated, agent_nodes_tools, other,
                   execution_trace, system, inputs, batch>>

\* no timeout is passed to any collaborator and the loop over the stream has
\* none: the operation waits for the call
OnNoResponse(node) == "blocked"

\* a collaborator's call does not return
NoResponse ==
    /\ Len(trace) < MaxTrace
    /\ Collaborators # {}
    /\ pc' = OnNoResponse(pc)
    /\ UNCHANGED <<topology, state, trace, calls, final_state, final_answer, returned,
                   generated, fault, agent_nodes_tools, other,
                   execution_trace, system, inputs, batch>>

\* where a run would be after Ctrl-C if the interrupt were swallowed
OnKeyboardInterruptIgnored(node) == node

\* neither run() nor query() handles KeyboardInterrupt: it leaves the operation
\* and is caught by interactive_mode, which ends the session
OnKeyboardInterrupt(node) == "raised"

\* Ctrl-C while run() / query() is in progress, between two steps or in a call
KeyboardInterrupt ==
    /\ pc \notin {"returned", "raised"}
    /\ fault' = [type |-> "KeyboardInterrupt", collab |-> "user", node |-> pc]
    /\ pc' = OnKeyboardInterrupt(pc)
    /\ UNCHANGED <<topology, state, trace, calls, final_state, final_answer, returned,
                   generated, agent_nodes_tools, other,
                   execution_trace, system, inputs, batch>>

Next ==
    \/ Raise
    \/ NoResponse
    \/ KeyboardInterrupt
    \/ Start
    \/ WebSearch
    \/ Retrieve
    \/ GradeDocuments
    \/ TransformQuery
    \/ Generate
    \/ Run
    \/ QueryNotInitialized
    \/ AgentStart
    \/ Agent
    \/ AgentRetrieve
    \/ AgentRewrite
    \/ AgentGenerate
    \/ Query

Spec == Init /\ [][Next]_vars

\* what run() / query() and the graph do by themselves: the loop is synchronous,
\* so a step whose collaborators answer is taken
Engine ==
    \/ Start \/ WebSearch \/ Retrieve \/ GradeDocuments \/ TransformQuery \/ Generate \/ Run
    \/ AgentStart \/ Agent \/ AgentRetrieve \/ AgentRewrite \/ AgentGenerate \/ Query

SpecFair == Spec /\ WF_vars(Engine)

(***************************************************************************)
(* run_with_details() instead of run(): the same graph, the operation      *)
(* keeps a list of trace entries and returns it with the final state.      *)
(***************************************************************************)
InitDetails ==
    /\ topology = "router_first"
    /\ \E question \in UserQuestions : inputs = [question |-> question]
    /\ state = inputs
    /\ pc = "START"
    /\ trace = <<>>
    /\ calls = <<>>
    /\ final_state = None
    /\ final_answer = None
    /\ returned = None
    /\ generated = None
    /\ fault = None
    /\ batch = NoBatch
    /\ agent_nodes_tools = None
    /\ other = NoRun
    /\ execution_trace = List(<<>>)
    /\ system = Compiled

NextDetails ==
    \/ Raise
    \/ NoResponse
    \/ KeyboardInterrupt
    \/ Start
    \/ WebSearch
    \/ Retrieve
    \/ GradeDocuments
    \/ TransformQuery
    \/ Generate
    \/ RunWithDetails

SpecDetails == InitDetails /\ [][NextDetails]_vars

(***************************************************************************)
(* The knowledge-base example of demo_execution_flow, with stubs for the   *)
(* collaborators: the route classifier answers vectorstore, the retriever  *)
(* returns four documents, the relevance grader keeps three of them, both  *)
(* graders of the generation answer 'yes'.  The stubs answer: no call      *)
(* fails or waits.                                                         *)
(***************************************************************************)
ThreeOfFour ==
    {grades \in [1..4 -> {"yes", "no"}] : Cardinality({i \in 1..4 : grades[i] = "yes"}) = 3}

InitScenario == Init /\ topology = "router_first"

ScenarioStart == StartOn({"vectorstore"})

ScenarioRetrieve == RetrieveOn([1..4 -> Documents])

ScenarioGradeDocuments == GradeDocumentsOn(ThreeOfFour)

ScenarioGenerate == GenerateOn({"yes"}, {"yes"})

NextScenario ==
    \/ ScenarioStart
    \/ ScenarioRetrieve
    \/ ScenarioGradeDocuments
    \/ ScenarioGenerate
    \/ Run

SpecScenario == InitScenario /\ [][NextScenario]_vars

(***************************************************************************)
(* Two query() calls at a time on one AgenticRAGSystem: the same compiled  *)
(* graph, the same module-level agent_nodes and tools_manager.  Each call  *)
(* has its own inputs and its own final_answer; the steps of the two       *)
(* interleave.  The second call is followed for MaxOther steps, and its    *)
(* collaborators are taken not to raise.                                   *)
(***************************************************************************)
OtherQuestions == {"q2"}

InitConcurrent ==
    /\ topology = "agent_first"
    /\ \E question \in UserQuestions : inputs = [messages |-> <<HumanMessage(question)>>]
    /\ state = inputs
    /\ \E question \in OtherQuestions :
          other = [pc |-> "START", state |-> [messages |-> <<HumanMessage(question)>>],
                   steps |-> 0, final_answer |-> None]
    /\ pc = "START"
    /\ trace = <<>>
    /\ calls = <<>>
    /\ final_state = None
    /\ final_answer = None
    /\ returned = None
    /\ generated = None
    /\ fault = None
    /\ batch = NoBatch
    /\ agent_nodes_tools = None
    /\ execution_trace = None
    /\ system = Initialized

OtherFirst(node) == other.pc = node /\ other.steps < MaxOther

\* query() of the second call: one output of graph.stream(inputs)
OtherOutput(key, value, next) ==
    /\ other' = [pc |-> next,
                 state |-> AgentState(other.state, value),
                 steps |-> other.steps + 1,
                 final_answer |-> IF key = "generate" /\ "messages" \in DOMAIN value
                                  THEN value.messages[1] ELSE other.final_answer]
    /\ agent_nodes_tools' = IF key = "agent" THEN AgentNodes_get_tools(agent_nodes_tools)
                            ELSE agent_nodes_tools
    /\ UNCHANGED <<topology, state, pc, trace, calls, final_state, final_answer, returned,
                   generated, fault,
                   execution_trace, system, inputs, batch>>

OtherStart ==
    /\ other.pc = "START"
    /\ other' = [other EXCEPT !.pc = "agent"]
    /\ UNCHANGED <<topology, state, pc, trace, calls, final_state, final_answer, returned,
                   generated, fault, agent_nodes_tools,
                   execution_trace, system, inputs, batch>>

OtherAgent ==
    /\ OtherFirst("agent")
    /\ \E response \in AgentResponses :
          LET value == AgentNodes_agent(other.state, response)
          IN  OtherOutput("agent", value,
                          AgentEdges[tools_condition(AgentState(other.state, value))])

OtherRetrieve ==
    /\ OtherFirst("retrieve")
    /\ \E text \in ToolTexts, score \in Scores :
          OtherOutput("retrieve", ToolNode(other.state, text), AgentNodes_grade_documents(score))

OtherRewrite ==
    /\ OtherFirst("rewrite")
    /\ \E content \in Questions :
          OtherOutput("rewrite", AgentNodes_rewrite(other.state, AIMessage(content, <<>>)),
                      "agent")

OtherGenerate ==
    /\ OtherFirst("generate")
    /\ \E response \in Generations :
          OtherOutput("generate", AgentNodes_generate(other.state, response), "END")

\* query() of the second call returns
OtherQuery ==
    /\ other.pc = "END"
    /\ other' = [other EXCEPT !.pc = "returned",
                              !.final_answer = IF Truthy(other.final_answer)
                                               THEN other.final_answer ELSE Str(NoAnswer)]
    /\ UNCHANGED <<topology, state, pc, trace, calls, final_state, final_answer, returned,
                   generated, fault, agent_nodes_tools,
                   execution_trace, system, inputs, batch>>

NextConcurrent ==
    \/ Raise
    \/ AgentStart
    \/ Agent
    \/ AgentRetrieve
    \/ AgentRewrite
    \/ AgentGenerate
    \/ Query
    \/ OtherStart
    \/ OtherAgent
    \/ OtherRetrieve
    \/ OtherRewrite
    \/ OtherGenerate
    \/ OtherQuery

SpecConcurrent == InitConcurrent /\ [][NextConcurrent]_vars

(***************************************************************************)
(* What the caller can tell about a run: run() and query() either are      *)
(* still iterating over the stream, have returned, or have been left by an *)
(* exception; neither has any other way to end a run.                      *)
(***************************************************************************)
Outcome ==
    CASE pc = "returned" -> "ok"
      [] pc = "raised" -> "raised"
      [] OTHER -> "running"

Executed(node) == \E i \in 1..Len(trace) : trace[i] = node
Count(node) == Cardinality({i \in 1..Len(trace) : trace[i] = node})
PreviousStep == IF trace = <<>> THEN "ENTRY" ELSE Last(trace)

(***************************************************************************)
(* C1.  Router-first: a run never executes more than MaxSteps steps, and a *)
(* run that has executed MaxSteps steps without reaching END has ended     *)
(* with the budget-exhausted outcome.                                      *)
(***************************************************************************)
C1_RouterFirstStepBudget ==
    topology = "router_first" =>
        /\ Len(trace) <= MaxSteps
        /\ (Len(trace) = MaxSteps /\ pc \notin {"END", "returned"}
                => Outcome = "budget_exhausted")

(***************************************************************************)
(* C2.  Agent-first: a run that keeps cycling agent -> retrieve -> rewrite *)
(* (generate is never reached) has ended with the budget-exhausted outcome *)
(* once MaxSteps steps have been executed, and never executes a further    *)
(* step.                                                                   *)
(***************************************************************************)
C2_AgentFirstStepBudget ==
    (topology = "agent_first" /\ ~Executed("generate") /\ pc \notin {"END", "returned"}) =>
        /\ Len(trace) <= MaxSteps
        /\ (Len(trace) = MaxSteps => Outcome = "budget_exhausted")

(***************************************************************************)
(* C3.  No edge consults the iteration limit, so the self-correction loops *)
(* never close by themselves: however many steps a run has executed (up to *)
(* the length the model follows a run for), a run that is about to execute *)
(* generate can be sent back to generate by a "not supported" verdict, and *)
(* an agent-first run can always take the next step of the cycle           *)
(* agent -> retrieve -> rewrite -> agent.  The graph state never carries   *)
(* an iterations counter, so should_continue_retrieval would answer        *)
(* "continue" in every reachable state.                                    *)
(***************************************************************************)
C3_LoopsUnbounded ==
    /\ RouterFirst("generate") => ENABLED (Generate /\ pc' = "generate")
    /\ RouterFirst("transform_query") => ENABLED (TransformQuery /\ pc' = "retrieve")
    /\ RouterFirst("grade_documents") /\ state.documents.items = <<>>
            => ENABLED (GradeDocuments /\ pc' = "transform_query")
    /\ AgentFirst("agent") => ENABLED (Agent /\ pc' = "retrieve")
    /\ AgentFirst("retrieve") => ENABLED (AgentRetrieve /\ pc' = "rewrite")
    /\ AgentFirst("rewrite") => ENABLED (AgentRewrite /\ pc' = "agent")
    /\ "iterations" \notin DOMAIN state
    /\ should_continue_retrieval(state, MAX_ITERATIONS) = "continue"

\* a run that has regenerated more often than MAX_ITERATIONS and is sent
\* back to generate once more
C3_Witness ==
    /\ topology = "router_first"
    /\ Count("generate") > MAX_ITERATIONS
    /\ Len(trace) > MaxSteps
    /\ pc = "generate"
    /\ Last(trace) = "generate"

(***************************************************************************)
(* The answer the caller reads from what the run returned: the generation  *)
(* entry of the dictionary run() returns (callers read it with a           *)
(* placeholder default), the string query() returns.                       *)
(***************************************************************************)
Answer ==
    IF topology = "router_first"
    THEN IF returned = None THEN None
         ELSE IF "generation" \in DOMAIN returned THEN Str(returned.generation)
         ELSE Str(NoAnswer)
    ELSE returned

(***************************************************************************)
(* C4.  In both topologies a run that ends ok returns a non-empty answer   *)
(* that is the output of the last generate step executed in the run.       *)
(***************************************************************************)
C4_AnswerIsLastGeneration ==
    pc = "returned" =>
        /\ Executed("generate")
        /\ Answer = generated
        /\ Answer.content # ""

(***************************************************************************)
(* C5.  Original statement, both topologies: when an answer is released,   *)
(* the latest step has obtained a positive groundedness verdict on that    *)
(* answer with the current documents and a positive answer-quality verdict *)
(* on it with the current question.                                        *)
(***************************************************************************)
Validated(documents, question, generation) ==
    /\ \E i \in 1..Len(calls) :
          /\ calls[i].collab = "hallucination_grader"
          /\ calls[i].input = <<documents, generation>>
          /\ calls[i].output = "yes"
    /\ \E i \in 1..Len(calls) :
          /\ calls[i].collab = "answer_grader"
          /\ calls[i].input = <<question, generation>>
          /\ calls[i].output = "yes"

C5_ReleasedOnlyValidated ==
    /\ (topology = "router_first" /\ pc \in {"END", "returned"})
          => Validated(state.documents, state.question, state.generation)
    /\ (topology = "agent_first" /\ pc \in {"END", "returned"} /\ Executed("generate"))
          => Validated(state.messages[Len(state.messages) - 1].content,
                       state.messages[1].content, Last(state.messages).content)

(***************************************************************************)
(* C5 as amended.  Router-first only: a run reaches END only when the      *)
(* generate step just executed obtained a positive groundedness verdict on *)
(* the generation (with the documents of the state) and a positive         *)
(* answer-quality verdict on it (with the question of the state); that     *)
(* generation is the one returned.                                         *)
(***************************************************************************)
C5_RouterFirstReleasedOnlyValidated ==
    (topology = "router_first" /\ pc \in {"END", "returned"}) =>
        /\ Last(trace) = "generate"
        /\ Validated(state.documents, state.question, state.generation)
        /\ generated = Str(state.generation)
        /\ pc = "returned" => returned.generation = state.generation

C5_Witness ==
    /\ topology = "router_first"
    /\ pc = "returned"
    /\ Count("generate") >= 2
    /\ Executed("transform_query")
    /\ returned.generation = "a1"

\* a node is executed in this step
StepExecuted == Len(trace') = Len(trace) + 1

(***************************************************************************)
(* C6.  Router-first: when the relevance grader has answered 'yes' for no  *)
(* document of the retrieve result, the step that follows grade_documents  *)
(* is transform_query; and the retrieve step that follows a                *)
(* transform_query asks the retriever for the question text the rewriter   *)
(* has just produced (which replaces the question of the previous          *)
(* retrieve).                                                              *)
(***************************************************************************)
C6_RewriteThenRetrieve ==
    [][(topology = "router_first" /\ StepExecuted /\ trace # <<>>) =>
          /\ (Last(trace) = "grade_documents"
                /\ \A i \in 1..Len(calls) : calls[i].output # "yes")
                => Last(trace') = "transform_query"
          /\ Last(trace) = "transform_query"
                => /\ Last(trace') = "retrieve"
                   /\ calls[1].collab = "question_rewriter"
                   /\ calls'[1].collab = "retriever"
                   /\ calls'[1].input = calls[1].output
                   /\ state'.question = calls[1].output
      ]_vars

\* the retrieve after a rewrite that changed the question, all documents of
\* the first retrieve having been graded irrelevant
C6_Witness ==
    /\ topology = "router_first"
    /\ trace = <<"retrieve", "grade_documents", "transform_query", "retrieve">>
    /\ calls[1].collab = "retriever"
    /\ calls[1].input = "q1"
    /\ state.question = "q1"
    /\ calls[1].output.items # <<>>

(***************************************************************************)
(* C7.  Router-first: after a generation that the groundedness grader did  *)
(* not judge grounded, the next step executed is generate, nothing in      *)
(* between, and it reads the same documents as the generate before it.     *)
(***************************************************************************)
C7_RegenerateOnSameDocuments ==
    [][(/\ topology = "router_first"
        /\ StepExecuted
        /\ trace # <<>>
        /\ Last(trace) = "generate"
        /\ calls[2].collab = "hallucination_grader"
        /\ calls[2].output # "yes")
       => /\ Last(trace') = "generate"
          /\ calls'[1].collab = "rag_chain"
          /\ calls'[1].input[1] = calls[1].input[1]
          /\ state'.documents = state.documents
      ]_vars

C7_Witness ==
    /\ topology = "router_first"
    /\ Len(trace) >= 4
    /\ trace[Len(trace) - 1] = "generate"
    /\ Last(trace) = "generate"
    /\ state.documents = List(<<Document("d1"), Document("d2")>>)
    /\ calls[1].input[1] = state.documents

(***************************************************************************)
(* C8.  Router-first: consecutive steps of a run follow the transition     *)
(* table and nothing else; END is reached from generate only.              *)
(***************************************************************************)
RouterFirstTable ==
    { <<"ENTRY", "web_search">>, <<"ENTRY", "retrieve">>,
      <<"web_search", "generate">>,
      <<"retrieve", "grade_documents">>,
      <<"grade_documents", "transform_query">>, <<"grade_documents", "generate">>,
      <<"transform_query", "retrieve">>,
      <<"generate", "generate">>, <<"generate", "transform_query">>, <<"generate", "END">> }

\* the consecutive pairs of the run so far, the step resolved next included
Transitions ==
    {<<trace[i], trace[i + 1]>> : i \in 1..(Len(trace) - 1)}
        \cup (IF trace # <<>> THEN {<<"ENTRY", trace[1]>>} ELSE {})
        \cup (IF pc \in {"START", "returned", "raised", "blocked"} THEN {}
              ELSE {<<PreviousStep, pc>>})

C8_RouterFirstTransitions ==
    topology = "router_first" =>
        /\ Transitions \subseteq RouterFirstTable
        /\ pc \in {"END", "returned"} => Last(trace) = "generate"

C8_Witness ==
    /\ topology = "router_first"
    /\ trace = <<"web_search", "generate", "generate", "transform_query", "retrieve",
                 "grade_documents", "generate">>
    /\ pc = "END"

(***************************************************************************)
(* C9.  Agent-first: consecutive steps of a run follow the transition      *)
(* table and nothing else; generate executes at most once in a run and is  *)
(* then the last step of the run.                                          *)
(***************************************************************************)
AgentFirstTable ==
    { <<"ENTRY", "agent">>,
      <<"agent", "retrieve">>, <<"agent", "END">>,
      <<"retrieve", "generate">>, <<"retrieve", "rewrite">>,
      <<"generate", "END">>,
      <<"rewrite", "agent">> }

C9_AgentFirstTransitions ==
    topology = "agent_first" =>
        /\ Transitions \subseteq AgentFirstTable
        /\ Count("generate") <= 1
        \* after generate no node follows: the run is at END, has returned, or
        \* was interrupted by the user on its way out
        /\ Executed("generate") => /\ Last(trace) = "generate"
                                   /\ pc \in {"END", "returned", "raised"}
                                   /\ pc = "raised" => fault.type = "KeyboardInterrupt"

C9_Witness ==
    /\ topology = "agent_first"
    /\ trace = <<"agent", "retrieve", "rewrite", "agent", "retrieve", "generate">>
    /\ pc = "returned"

(***************************************************************************)
(* C10.  Router-first, the decision after generate: the answer grader is   *)
(* asked only after the hallucination grader has answered 'yes', and about *)
(* the same generation; the next step is generate iff the hallucination    *)
(* grader did not answer 'yes', END iff both graders answered 'yes', and   *)
(* transform_query iff the hallucination grader answered 'yes' and the     *)
(* answer grader did not.                                                  *)
(***************************************************************************)
C10_TwoStageDecision ==
    (topology = "router_first" /\ trace # <<>> /\ Last(trace) = "generate"
                                /\ pc \notin {"returned", "raised", "blocked"}) =>
        LET grounded == calls[2].output = "yes"
            asked == Len(calls) = 3
            useful == asked /\ calls[3].output = "yes"
        IN  /\ calls[1].collab = "rag_chain"
            /\ calls[2].collab = "hallucination_grader"
            /\ calls[2].input[2] = calls[1].output
            /\ asked <=> grounded
            /\ asked => /\ calls[3].collab = "answer_grader"
                        /\ calls[3].input[2] = calls[2].input[2]
            /\ pc = "generate" <=> ~grounded
            /\ pc = "END" <=> grounded /\ useful
            /\ pc = "transform_query" <=> grounded /\ ~useful

C10_Witness ==
    /\ topology = "router_first"
    /\ trace # <<>>
    /\ Last(trace) = "generate"
    /\ Len(calls) = 3
    /\ calls[3].output = "maybe"
    /\ pc = "transform_query"


(***************************************************************************)
(* C11.  Router-first, the decision after grade_documents: the relevance   *)
(* grader is called exactly once per document of the state, in order; the  *)
(* filtered list is empty iff no call answered 'yes'; the next step is     *)
(* transform_query iff the filtered list is empty (an empty retrieve       *)
(* result included) and generate iff it is not.                            *)
(***************************************************************************)
C11_GradeDocumentsDecision ==
    [][(topology = "router_first" /\ StepExecuted /\ Last(trace') = "grade_documents") =>
          LET documents == state.documents.items
              filtered == state'.documents.items
          IN  /\ Len(calls') = Len(documents)
              /\ \A i \in 1..Len(documents) :
                    /\ calls'[i].collab = "retrieval_grader"
                    /\ calls'[i].input = <<state.question, documents[i].page_content>>
              /\ filtered = <<>> <=> \A i \in 1..Len(calls') : calls'[i].output # "yes"
              /\ pc' = "transform_query" <=> filtered = <<>>
              /\ pc' = "generate" <=> filtered # <<>>
      ]_vars

C11_Witness ==
    /\ topology = "router_first"
    /\ trace = <<"retrieve", "grade_documents">>
    /\ Len(calls) = 2
    /\ calls[1].output = "no"
    /\ calls[2].output = "yes"
    /\ Len(state.documents.items) = 1
    /\ pc = "generate"


C13_RunNeverRaises ==
    /\ pc # "raised"
    /\ fault # None => pc = "returned" /\ returned # None

(***************************************************************************)
(* C14.  A value outside the declared set is never turned into a label: no *)
(* step completes (and resolves a next step) on a router verdict that is   *)
(* neither of the two declared values.                                     *)
(***************************************************************************)
DeclaredValues(collab) ==
    CASE collab = "question_router" -> {"vectorstore", "web_search"}
      [] collab \in {"hallucination_grader", "answer_grader", "grader"} -> {"yes", "no"}

C14_OutOfSetIsFatal ==
    \A i \in 1..Len(calls) :
        calls[i].collab \in {"question_router", "hallucination_grader", "answer_grader", "grader"}
            => calls[i].output \in DeclaredValues(calls[i].collab)


(***************************************************************************)
(* C15.  Merge law of the router-first state: a step overwrites exactly    *)
(* the fields its node returned, with the returned values, and leaves      *)
(* every other field of the state as it was.                               *)
(***************************************************************************)
C15_MergeLaw ==
    [][(topology = "router_first" /\ StepExecuted) =>
          LET patch == final_state'
          IN  /\ DOMAIN state' = DOMAIN state \cup DOMAIN patch
              /\ \A f \in DOMAIN patch : state'[f] = patch[f]
              /\ \A f \in DOMAIN state \ DOMAIN patch : state'[f] = state[f]
      ]_vars

\* a retrieve after a generate: new documents, the generation is kept
C15_Witness ==
    /\ topology = "router_first"
    /\ Len(trace) >= 2
    /\ Last(trace) = "retrieve"
    /\ Executed("generate")
    /\ DOMAIN final_state = {"documents", "question"}
    /\ DOMAIN state = {"documents", "question", "generation"}
    /\ state.documents = final_state.documents

(***************************************************************************)
(* C16.  The agent-first transcript is append-only: the messages before a  *)
(* step are a prefix of the messages after it, every step adds exactly     *)
(* one message, and the first message is always the caller's question.     *)
(***************************************************************************)
C16_TranscriptAppendOnly ==
    [][topology = "agent_first" =>
          /\ Len(state'.messages) >= Len(state.messages)
          /\ SubSeq(state'.messages, 1, Len(state.messages)) = state.messages
          /\ StepExecuted => Len(state'.messages) = Len(state.messages) + 1
          /\ state'.messages[1] \in {HumanMessage(q) : q \in UserQuestions}
      ]_vars

\* a transcript with a rewrite in it: question, tool request, tool result,
\* rewritten question
C16_Witness ==
    /\ topology = "agent_first"
    /\ Len(trace) = 3
    /\ Last(trace) = "rewrite"
    /\ Len(state.messages) = 4
    /\ state.messages[1] = HumanMessage("q0")
    /\ state.messages[3].type = "tool"


(***************************************************************************)
(* C17.  Router-first: a step that produces documents replaces the field   *)
(* wholesale.  After retrieve and after web_search it is what the          *)
(* collaborator returned, whatever it was before; after grade_documents it *)
(* is exactly the documents graded 'yes', in their order.                  *)
(***************************************************************************)
C17_DocumentsReplaced ==
    [][(topology = "router_first" /\ StepExecuted) =>
          /\ Last(trace') \in {"retrieve", "web_search"} =>
                state'.documents = calls'[1].output
          /\ Last(trace') = "grade_documents" =>
                LET documents == state.documents.items
                    filtered == state'.documents.items
                    kept == {i \in 1..Len(documents) : calls'[i].output = "yes"}
                    nth(j) == CHOOSE i \in kept : Cardinality({k \in kept : k <= i}) = j
                IN  /\ Len(filtered) = Cardinality(kept)
                    /\ \A j \in 1..Len(filtered) : filtered[j] = documents[nth(j)]
      ]_vars

\* a second retrieval, of two different documents, of which the grader keeps
\* the second only
C17_Witness ==
    /\ topology = "router_first"
    /\ Len(trace) >= 2
    /\ Last(trace) = "grade_documents"
    /\ Executed("transform_query")
    /\ Len(calls) = 2
    /\ calls[1].input[2] # calls[2].input[2]
    /\ calls[1].output = "no"
    /\ calls[2].output = "yes"
    /\ state.documents = List(<<Document(calls[2].input[2])>>)


(***************************************************************************)
(* C18.  Router-first: whenever the state has documents, the field is an   *)
(* ordered sequence of documents; in particular web_search writes a        *)
(* sequence of documents.                                                  *)
(***************************************************************************)
C18_DocumentsIsSequence ==
    (topology = "router_first" /\ "documents" \in DOMAIN state) =>
        /\ state.documents.type = "list"
        /\ \A i \in 1..Len(state.documents.items) : state.documents.items[i].type = "Document"

(***************************************************************************)
(* C19.  Router-first: the state has a generation iff a generate step has  *)
(* been executed, and the generation is what the most recent generate      *)
(* step obtained from the RAG chain.                                       *)
(***************************************************************************)
C19_GenerationFromLatestGenerate ==
    topology = "router_first" =>
        /\ "generation" \in DOMAIN state <=> Executed("generate")
        /\ "generation" \in DOMAIN state => Str(state.generation) = generated
        /\ (trace # <<>> /\ Last(trace) = "generate") => state.generation = calls[1].output

\* two generate steps, then a rewrite: the state still holds the second answer
C19_Witness ==
    /\ topology = "router_first"
    /\ Count("generate") >= 2
    /\ Last(trace) = "transform_query"
    /\ "generation" \in DOMAIN state
    /\ state.generation = "a2"
    /\ generated = Str("a2")


(***************************************************************************)
(* C20.  Two runs on the same compiled graph and the same module-level     *)
(* managers are independent: a step of one run leaves the state record and *)
(* the answer of the other run alone, and no step of a run modifies an     *)
(* object the two runs share.                                              *)
(***************************************************************************)
C20_RunsIndependent ==
    [][/\ agent_nodes_tools' = agent_nodes_tools
       /\ other' # other => state' = state /\ final_answer' = final_answer /\ pc' = pc
       /\ state' # state => other' = other
      ]_vars


(***************************************************************************)
(* C21.  Every label a router can return in a reachable state has a        *)
(* successor: at each decision point, whatever the collaborators answer,   *)
(* the label is in the table of that decision point and the table names a  *)
(* node of the graph or END; the agent-first grading decision, which has   *)
(* no table, returns the name of a node.  The position of a run is never   *)
(* anything but a node (or a call made in one), the entry, END or the end  *)
(* of the operation.                                                       *)
(***************************************************************************)
C21_LabelsCovered ==
    /\ (topology = "router_first" /\ pc = "START") =>
          \A datasource \in Datasources :
              /\ route_question(datasource) \in DOMAIN StartEdges
              /\ StartEdges[route_question(datasource)] \in RouterFirstNodes
    /\ (topology = "router_first" /\ pc = "grade_documents") =>
          \A grades \in [1..Len(state.documents.items) -> Scores] :
              LET label == decide_to_generate(
                               Merge(state, GraphNodes_grade_documents(state, grades)))
              IN  /\ label \in DOMAIN GradeDocumentsEdges
                  /\ GradeDocumentsEdges[label] \in RouterFirstNodes
    /\ (topology = "router_first" /\ pc = "generate") =>
          \A hallucination \in Scores, answer \in Scores \cup {"not asked"} :
              LET label == grade_generation_v_documents_and_question(hallucination, answer)
              IN  /\ label \in DOMAIN GenerateEdges
                  /\ GenerateEdges[label] \in RouterFirstNodes \cup {"END"}
    /\ (topology = "agent_first" /\ pc = "agent") =>
          \A response \in AgentResponses :
              LET label == tools_condition(AgentState(state, AgentNodes_agent(state, response)))
              IN  /\ label \in DOMAIN AgentEdges
                  /\ AgentEdges[label] \in AgentFirstNodes \cup {"END"}
    /\ (topology = "agent_first" /\ pc = "retrieve") =>
          \A score \in Scores : AgentNodes_grade_documents(score) \in AgentFirstNodes
    /\ pc \in (IF topology = "router_first" THEN RouterFirstNodes ELSE AgentFirstNodes)
                 \cup {"START", "END", "returned", "raised", "blocked"}

\* a run that has passed the three decision points of the router-first graph,
\* the last with the label 'not useful'
C21_Witness ==
    /\ topology = "router_first"
    /\ trace = <<"retrieve", "grade_documents", "generate">>
    /\ Len(calls) = 3
    /\ calls[3].output = "no"
    /\ pc = "transform_query"


(***************************************************************************)
(* C22.  Cancellation: the step in which a run is interrupted produces no  *)
(* output, and once the interrupt has been observed no further step of     *)
(* the run is begun and nothing is returned.                               *)
(***************************************************************************)
C22_NoStepAfterCancellation ==
    [][/\ (fault' # None /\ fault'.type = "KeyboardInterrupt" /\ fault = None) =>
              /\ pc' = "raised"
              /\ trace' = trace
              /\ state' = state
              /\ returned' = None
       /\ (fault # None /\ fault.type = "KeyboardInterrupt") =>
              /\ trace' = trace
              /\ state' = state
              /\ returned' = returned
              /\ pc' = pc
      ]_vars

\* a run interrupted after its second step, while waiting for a collaborator
C22_Witness ==
    /\ pc = "raised"
    /\ fault # None
    /\ fault.type = "KeyboardInterrupt"
    /\ fault.node = "blocked"
    /\ Len(trace) = 2
    /\ returned = None

(***************************************************************************)
(* C23.  A call that exceeds the per-call timeout is a fault: a run that   *)
(* waits for a collaborator ends with a fault, it does not wait for ever.  *)
(***************************************************************************)
C23_TimeoutIsFault == (pc = "blocked") ~> (pc = "raised" /\ fault # None)


(***************************************************************************)
(* C24.  The knowledge-base example: the run executes retrieve,            *)
(* grade_documents and generate, in this order and once each, and is then  *)
(* accepted (END is the fourth element of its path); it never stops        *)
(* before it has returned; the documents of the final state are the three  *)
(* relevant ones, and the outcome is ok.                                   *)
(***************************************************************************)
C24_HappyPath ==
    /\ SubSeq(<<"retrieve", "grade_documents", "generate">>, 1, Len(trace)) = trace
    /\ pc # "returned" => ENABLED NextScenario
    /\ pc \in {"END", "returned"} =>
          /\ trace = <<"retrieve", "grade_documents", "generate">>
          /\ Len(trace \o <<"END">>) = 4
          /\ Len(state.documents.items) = 3
          /\ Len(final_state.documents.items) = 3
    /\ pc = "returned" =>
          /\ Outcome = "ok"
          /\ returned = final_state
          /\ Len(returned.documents.items) = 3

\* the run has returned three documents and the answer 'a1'
C24_Witness ==
    /\ pc = "returned"
    /\ trace = <<"retrieve", "grade_documents", "generate">>
    /\ Len(returned.documents.items) = 3
    /\ returned.generation = "a1"
    /\ Outcome = "ok"


(***************************************************************************)
(* C25.  A step is a function of the state it is given and of what its     *)
(* collaborators answer: the dictionary it returns is determined by these  *)
(* (so that a second execution on the same state with the same answers     *)
(* returns the same dictionary), and the step changes nothing but the      *)
(* state of the run, through that dictionary.                              *)
(***************************************************************************)
\* the dictionary a node returns on state s when its collaborators answer as in cs
Patch(node, s, cs) ==
    CASE node = "retrieve" -> GraphNodes_retrieve(s, cs[1].output)
      [] node = "web_search" -> GraphNodes_web_search(s, cs[1].output)
      [] node = "grade_documents" ->
            GraphNodes_grade_documents(s, [i \in 1..Len(cs) |-> cs[i].output])
      [] node = "generate" -> GraphNodes_generate(s, cs[1].output)
      [] node = "transform_query" -> GraphNodes_transform_query(s, cs[1].output)

C25_StepIdempotent ==
    [][StepExecuted =>
          /\ topology = "router_first" =>
                /\ final_state' = Patch(Last(trace'), state, calls')
                /\ state' = Merge(state, final_state')
          /\ (topology = "agent_first" /\ Last(trace') \in {"agent", "rewrite"}) =>
                state' = AgentState(state, [messages |-> <<calls'[1].output>>])
          /\ (topology = "agent_first" /\ Last(trace') = "generate") =>
                state' = AgentState(state, [messages |-> <<Str(calls'[1].output)>>])
          /\ agent_nodes_tools' = agent_nodes_tools
      ]_vars


(***************************************************************************)
(* C26.  Agent-first, the decision after agent: the newest message of the  *)
(* transcript is the one the agent model has just answered; the next step  *)
(* is retrieve iff that message requests a tool call, and END otherwise,   *)
(* whatever the earlier messages are.                                      *)
(***************************************************************************)
C26_AgentDecision ==
    [][(topology = "agent_first" /\ StepExecuted /\ Last(trace') = "agent") =>
          LET newest == Last(state'.messages)
          IN  /\ newest = calls'[1].output
              /\ Len(state'.messages) = Len(state.messages) + 1
              /\ pc' = "retrieve" <=> newest.tool_calls # <<>>
              /\ pc' = "END" <=> newest.tool_calls = <<>>
      ]_vars

\* the agent first requests the tool and, after a rewrite, answers without a
\* request: the run goes to END although an earlier message has a request
C26_Witness ==
    /\ topology = "agent_first"
    /\ trace = <<"agent", "retrieve", "rewrite", "agent">>
    /\ state.messages[2].tool_calls # <<>>
    /\ Last(state.messages).tool_calls = <<>>
    /\ pc = "END"


(***************************************************************************)
(* C27.  run_with_details: the execution trace has one entry for each      *)
(* step executed, in the order of execution, and what is returned at the   *)
(* end of a run is this trace together with the state produced by the      *)
(* last step executed.                                                     *)
(***************************************************************************)
C27_TraceAndFinalState ==
    /\ Len(execution_trace.items) = Len(trace)
    /\ \A i \in 1..Len(trace) : execution_trace.items[i].node = trace[i]
    /\ pc = "returned" =>
          /\ returned.execution_trace = execution_trace
          /\ returned.final_state = final_state
          /\ returned.final_state = state
          /\ returned.question = inputs.question
          /\ Last(trace) = "generate"
          /\ returned.answer = state.generation

\* a run with a rewrite and a second retrieval has returned its six entries
C27_Witness ==
    /\ pc = "returned"
    /\ trace = <<"retrieve", "grade_documents", "transform_query", "retrieve",
                 "grade_documents", "generate">>
    /\ Len(returned.execution_trace.items) = 6
    /\ returned.execution_trace.items[3].question = Str("q1")
    /\ returned.execution_trace.items[3].has_documents = FALSE
    /\ returned.execution_trace.items[6].has_generation = TRUE

(***************************************************************************)
(* C30.  query() on a system that has not been initialized raises          *)
(* ValueError before any step is executed: nothing of the run happens and  *)
(* the graph and the initialized flag of the system stay as they are.      *)
(***************************************************************************)
C30_QueryBeforeInitialize ==
    [][(topology = "agent_first" /\ ~system.initialized) =>
          /\ pc' = "raised"
          /\ fault'.type \in {"ValueError", "KeyboardInterrupt"}
          /\ pc = "START" => fault'.node = "START"
          /\ trace' = <<>>
          /\ state' = inputs
          /\ returned' = None
          /\ system' = system
      ]_vars

C30_Witness ==
    /\ topology = "agent_first"
    /\ system = NotInitialized
    /\ pc = "raised"
    /\ fault # None
    /\ fault.type = "ValueError"
    /\ trace = <<>>


(***************************************************************************)
(* C28.  Router-first: the question of the state changes in no step but    *)
(* transform_query; retrieve, web_search, grade_documents and generate     *)
(* leave it as it was.  After transform_query the question is what the     *)
(* rewriter answered, and the documents are those before the step.         *)
(***************************************************************************)
C28_QuestionWrittenByTransformQuery ==
    [][topology = "router_first" =>
          /\ state'.question # state.question =>
                StepExecuted /\ Last(trace') = "transform_query"
          /\ (StepExecuted /\ Last(trace') = "transform_query") =>
                /\ calls'[1].collab = "question_rewriter"
                /\ state'.question = calls'[1].output
                /\ state'.documents = state.documents
      ]_vars

\* the rewritten question has gone through a retrieve and a grade_documents
C28_Witness ==
    /\ topology = "router_first"
    /\ trace = <<"web_search", "generate", "transform_query", "retrieve", "grade_documents">>
    /\ inputs.question = "q0"
    /\ state.question = "q1"


(***************************************************************************)
(* GraphEdges.should_continue_retrieval applied to a graph state.  No edge *)
(* of build_graph uses the function and no node writes an iterations      *)
(* field, so the function is applied here to the states a caller can hand  *)
(* it: a state of the router-first graph at any stage of a run, with an    *)
(* iterations counter or without one.                                      *)
(***************************************************************************)
GraphStates ==
    LET stages ==
            {[question |-> q] : q \in Questions}
            \cup {[question |-> q, documents |-> List(ds)] :
                     q \in Questions, ds \in SeqsUpTo(Documents, 1)}
            \cup {[question |-> q, documents |-> List(ds), generation |-> g] :
                     q \in Questions, ds \in SeqsUpTo(Documents, 1), g \in Generations}
    IN  stages \cup {Merge(s, [iterations |-> i]) : s \in stages, i \in 0..MaxIterations}

InitLimit ==
    /\ topology = "router_first"
    /\ inputs \in GraphStates
    /\ state = inputs
    /\ pc = "START"
    /\ trace = <<>>
    /\ calls = <<>>
    /\ final_state = None
    /\ final_answer = None
    /\ returned = None
    /\ generated = None
    /\ fault = None
    /\ batch = NoBatch
    /\ agent_nodes_tools = None
    /\ other = NoRun
    /\ execution_trace = None
    /\ system = Compiled

\* one call of the function on the state; the call and its result are kept
ShouldContinueRetrievalWith(max_iterations) ==
    /\ pc = "START"
    /\ pc' = "returned"
    /\ calls' = <<Call("should_continue_retrieval", max_iterations,
                       should_continue_retrieval(state, max_iterations))>>
    /\ returned' = Str(should_continue_retrieval(state, max_iterations))
    /\ UNCHANGED <<topology, state, trace, final_state, final_answer, generated,
                   fault, agent_nodes_tools, other, execution_trace, system, inputs, batch>>

ShouldContinueRetrieval ==
    \E max_iterations \in 0..MaxIterations : ShouldContinueRetrievalWith(max_iterations)

\* the call that leaves max_iterations to its default
ShouldContinueRetrievalDefault == ShouldContinueRetrievalWith(max_iterations_default)

NextLimit == ShouldContinueRetrieval \/ ShouldContinueRetrievalDefault

SpecLimit == InitLimit /\ [][NextLimit]_vars

(***************************************************************************)
(* C29.  should_continue_retrieval answers 'stop' exactly when the         *)
(* iterations counter of the state, taken as 0 when the state has no such  *)
(* field, is greater than or equal to max_iterations, and 'continue' in    *)
(* every other case; the state it is given is not modified.                *)
(***************************************************************************)
C29_ShouldContinueRetrieval ==
    pc = "returned" =>
        LET max_iterations == calls[1].input
            counter == IF "iterations" \in DOMAIN inputs THEN inputs.iterations ELSE 0
        IN  /\ returned \in {Str("stop"), Str("continue")}
            /\ returned = Str("stop") <=> counter >= max_iterations
            /\ returned = Str("continue") <=> counter < max_iterations
            /\ state = inputs

\* a state without the counter meets a limit of 0: the counter counts as 0,
\* which has reached the limit
C29_Witness ==
    /\ pc = "returned"
    /\ calls # <<>>
    /\ calls[1].collab = "should_continue_retrieval"
    /\ calls[1].input = 0
    /\ "iterations" \notin DOMAIN state
    /\ returned = Str("stop")


(***************************************************************************)
(* C31.  Router-first: the route classifier is consulted once in a run,    *)
(* at the entry point, and in no later step, so not after a rewrite of     *)
(* the question either.  A run routed to retrieve never executes           *)
(* web_search.  A run routed to web_search executes web_search once, and   *)
(* it executes retrieve or grade_documents only after generate was         *)
(* followed by transform_query, which is the decision 'not useful'.        *)
(***************************************************************************)
RouteClassifierCalls(cs) ==
    Cardinality({i \in 1..Len(cs) : cs[i].collab = "question_router"})

C31_RoutedOnce ==
    [][topology = "router_first" =>
          \* the run does not come back to the entry point
          /\ pc # "START" => pc' # "START"
          \* the step at the entry point asks the classifier once, about the
          \* caller's question, and follows its answer
          /\ (pc = "START" /\ pc' \in RouterFirstNodes) =>
                /\ RouteClassifierCalls(calls') = 1
                /\ Len(calls') = 1
                /\ calls'[1].input = inputs.question
                /\ pc' = "retrieve" <=> calls'[1].output = "vectorstore"
                /\ pc' = "web_search" <=> calls'[1].output = "web_search"
          \* no node asks it
          /\ StepExecuted => RouteClassifierCalls(calls') = 0
          /\ (trace' # <<>> /\ trace'[1] = "retrieve") => Count("web_search")' = 0
          /\ (trace' # <<>> /\ trace'[1] = "web_search") =>
                /\ Count("web_search")' = 1
                /\ \A i \in 1..Len(trace') :
                      trace'[i] \in {"retrieve", "grade_documents"} =>
                          \E j \in 1..(i - 2) : /\ trace'[j] = "generate"
                                                 /\ trace'[j + 1] = "transform_query"
          \* generate is followed by transform_query on 'not useful' only
          /\ (StepExecuted /\ Last(trace') = "generate" /\ pc' = "transform_query") =>
                /\ calls'[2].output = "yes"
                /\ Len(calls') = 3
                /\ calls'[3].output # "yes"
      ]_vars

\* a run routed to web_search whose answer was found not useful, whose
\* question was rewritten, and which then retrieved, graded and generated
C31_Witness ==
    /\ topology = "router_first"
    /\ trace = <<"web_search", "generate", "transform_query", "retrieve",
                 "grade_documents", "generate">>
    /\ state.question = "q1"
    /\ pc = "END"


(***************************************************************************)
(* C32.  Agent-first: the first message of the transcript is the caller's  *)
(* question in every state, and it is the question that the grading        *)
(* decision, rewrite and generate use.  A question that rewrite has        *)
(* appended is never the question of a later grading, generation or        *)
(* rewrite: every rewrite in a run asks the rewriter about the same text,  *)
(* so a deterministic rewriter appends the same reformulation each time.   *)
(***************************************************************************)
C32_QuestionIsFirstMessage ==
    [][topology = "agent_first" =>
          LET question == inputs.messages[1].content
          IN  /\ Len(state'.messages) >= 1
              /\ state'.messages[1] = HumanMessage(question)
              /\ (StepExecuted /\ Last(trace') = "retrieve") =>
                    /\ calls'[2].collab = "grader"
                    /\ calls'[2].input[1] = question
              /\ (StepExecuted /\ Last(trace') = "rewrite") =>
                    /\ calls'[1].collab = "rewriter_model"
                    /\ calls'[1].input = question
              /\ (StepExecuted /\ Last(trace') = "generate") =>
                    /\ calls'[1].collab = "rag_chain"
                    /\ calls'[1].input[2] = question
      ]_vars

\* the second rewrite of a run: the first one appended "q1", and the rewriter
\* is asked about "q0" again
C32_Witness ==
    /\ topology = "agent_first"
    /\ trace = <<"agent", "retrieve", "rewrite", "agent", "retrieve", "rewrite">>
    /\ state.messages[4].content = "q1"
    /\ calls[1].collab = "rewriter_model"
    /\ calls[1].input = "q0"


(***************************************************************************)
(* C33.  Agent-first: query() returns the output of the generate step if   *)
(* and only if a generate step was executed in the run; a run that ends    *)
(* without generate (the agent answered without asking for the tool)       *)
(* returns the placeholder, and not the agent's answer.                    *)
(***************************************************************************)
C33_QueryReturnsGenerateOutput ==
    (topology = "agent_first" /\ pc = "returned") =>
        /\ Executed("generate") <=> returned = generated
        /\ ~Executed("generate") =>
              /\ Last(trace) = "agent"
              /\ Last(state.messages).tool_calls = <<>>
              /\ returned = Str(NoAnswer)
              /\ returned # Str(Last(state.messages).content)


(***************************************************************************)
(* The fields of the state that each node of the router-first graph, and   *)
(* the edge function evaluated after it, reads with state[...], which      *)
(* raises KeyError when the field is absent.  decide_to_generate reads     *)
(* documents with a default and so requires nothing.                       *)
(***************************************************************************)
NodeReads ==
    [retrieve |-> {"question"},
     generate |-> {"question", "documents"},
     grade_documents |-> {"question", "documents"},
     transform_query |-> {"question", "documents"},
     web_search |-> {"question"}]

EdgeReads ==
    [retrieve |-> {},
     generate |-> {"question", "documents", "generation"},
     grade_documents |-> {},
     transform_query |-> {},
     web_search |-> {}]

(***************************************************************************)
(* C34.  No node and no edge function reads a field of the state that has  *)
(* not been written: router-first, the fields a node reads are present     *)
(* when the node starts (documents when generate or transform_query        *)
(* starts), and question, documents and generation are present when the    *)
(* decision after generate is evaluated; agent-first, the transcript is    *)
(* non-empty when the grading decision, rewrite or generate runs, and its  *)
(* newest message is the result of the retriever tool when the grading     *)
(* decision or generate runs.                                              *)
(***************************************************************************)
C34_NoReadBeforeWrite ==
    /\ topology = "router_first" =>
          /\ pc = "START" => "question" \in DOMAIN state
          /\ pc \in RouterFirstNodes => NodeReads[pc] \subseteq DOMAIN state
          /\ trace # <<>> => EdgeReads[Last(trace)] \subseteq DOMAIN state
    /\ topology = "agent_first" =>
          /\ "messages" \in DOMAIN state
          /\ pc \in {"agent", "retrieve", "rewrite", "generate"} => Len(state.messages) >= 1
          /\ (trace # <<>> /\ Last(trace) = "retrieve") =>
                /\ Len(state.messages) >= 1
                /\ Last(state.messages).type = "tool"
          /\ pc = "generate" => Last(state.messages).type = "tool"
          /\ pc = "retrieve" => Last(state.messages).tool_calls # <<>>

\* the decision after generate has been evaluated in a run that never
\* retrieved, and transform_query is about to start: the documents it reads
\* are the ones web_search wrote
C34_Witness ==
    /\ topology = "router_first"
    /\ trace = <<"web_search", "generate">>
    /\ pc = "transform_query"
    /\ DOMAIN state = {"question", "documents", "generation"}
    /\ state.documents \in {Document(c) : c \in WebContents}


(***************************************************************************)
(* AgenticRAGSystem from __init__ on: initialize(), stage by stage, and    *)
(* then the queries of the agent-first graph.  A stage is a call that      *)
(* either returns or raises; initialize() catches the exception, prints    *)
(* it and ends the process with sys.exit(1).                               *)
(***************************************************************************)
\* the stages as they would be with the tools before the vector store
InitializeStagesToolsFirst ==
    <<"config.validate", "tools.initialize", "vector_store.initialize",
      "workflow_builder.initialize">>

InitializeStages ==
    <<"config.validate", "vector_store.initialize", "tools.initialize",
      "workflow_builder.initialize">>

\* the stage that follows stage when it has returned; "START" after the last:
\* the system is ready for query()
StageAfter(stage) ==
    LET i == CHOOSE j \in 1..Len(InitializeStages) : InitializeStages[j] = stage
    IN  IF i = Len(InitializeStages) THEN "START" ELSE InitializeStages[i + 1]

\* create_retriever_tool raises ValueError when there is no retriever
ToolsManager_create_retriever_tool_raises(sys) == sys.vector_store.retriever = None

\* get_tools creates the tool list when it is empty
ToolsManager_tools(sys) ==
    IF sys.tools.tools = List(<<>>) THEN ToolsManager_get_tools ELSE sys.tools.tools

\* what a stage that returns has done to the system
StageEffect(stage, sys) ==
    CASE stage = "config.validate" -> sys
      [] stage = "vector_store.initialize" ->
            [sys EXCEPT !.vector_store.retriever = Str("VectorStoreRetriever")]
      [] stage = "tools.initialize" -> [sys EXCEPT !.tools.tools = ToolsManager_tools(sys)]
      [] stage = "workflow_builder.initialize" ->
            [sys EXCEPT !.graph = Str("CompiledStateGraph"), !.initialized = TRUE]

SystemExit(stage) == [type |-> "SystemExit", collab |-> stage, node |-> "initialize", code |-> 1]

InitLifecycle ==
    /\ Init
    /\ topology = "agent_first"
    /\ system = NotInitialized

\* main(): rag_system.initialize() is called
Initialize ==
    /\ topology = "agent_first" /\ pc = "START"
    /\ ~system.initialized
    /\ pc' = InitializeStages[1]
    /\ UNCHANGED <<topology, state, trace, calls, final_state, final_answer, returned,
                   generated, fault, agent_nodes_tools, other, execution_trace, system, inputs, batch>>

\* the stage at pc returns
StageReturns ==
    /\ topology = "agent_first"
    /\ \E i \in 1..Len(InitializeStages) : pc = InitializeStages[i]
    /\ ~(pc = "tools.initialize" /\ system.tools.tools = List(<<>>)
                                 /\ ToolsManager_create_retriever_tool_raises(system))
    /\ system' = StageEffect(pc, system)
    /\ pc' = StageAfter(pc)
    /\ UNCHANGED <<topology, state, trace, calls, final_state, final_answer, returned,
                   generated, fault, agent_nodes_tools, other, execution_trace, inputs, batch>>

\* the stage at pc raises: except Exception, sys.exit(1)
StageRaises ==
    /\ topology = "agent_first"
    /\ \E i \in 1..Len(InitializeStages) : pc = InitializeStages[i]
    /\ pc' = "exited"
    /\ fault' = SystemExit(pc)
    /\ UNCHANGED <<topology, state, trace, calls, final_state, final_answer, returned,
                   generated, agent_nodes_tools, other, execution_trace, system, inputs, batch>>

\* a caller asks tools_manager.get_tools() for the tools
GetTools ==
    /\ topology = "agent_first" /\ pc = "START"
    /\ IF system.tools.tools = List(<<>>) /\ ToolsManager_create_retriever_tool_raises(system)
       THEN /\ pc' = "raised"
            /\ fault' = [type |-> "ValueError", collab |-> "create_retriever_tool",
                         node |-> "get_tools"]
            /\ system' = system
       ELSE /\ pc' = pc
            /\ fault' = fault
            /\ system' = [system EXCEPT !.tools.tools = ToolsManager_tools(system)]
    /\ UNCHANGED <<topology, state, trace, calls, final_state, final_answer, returned,
                   generated, agent_nodes_tools, other, execution_trace, inputs, batch>>

NextLifecycle ==
    \/ Initialize
    \/ StageReturns
    \/ StageRaises
    \/ GetTools
    \/ QueryNotInitialized
    \/ AgentStart
    \/ Agent
    \/ AgentRetrieve
    \/ AgentRewrite
    \/ AgentGenerate
    \/ Query

SpecLifecycle == InitLifecycle /\ [][NextLifecycle]_vars

(***************************************************************************)
(* C35.  initialize() runs its stages in the order validate configuration, *)
(* initialize vector store, initialize tools, build and compile workflow;  *)
(* initialized becomes True only when all four have returned; when a stage *)
(* raises, no later stage runs, the process exits with status 1 and        *)
(* initialized stays False.  get_tools() before the vector store has a     *)
(* retriever raises ValueError and leaves the tool list empty.             *)
(***************************************************************************)
C35_InitializeInOrder ==
    [][topology = "agent_first" =>
          \* each stage starts only when the one before it has returned
          /\ (pc' = "config.validate" /\ pc' # pc) => (pc = "START" /\ ~system.initialized)
          /\ (pc' = "vector_store.initialize" /\ pc' # pc) =>
                (pc = "config.validate" /\ system' = system)
          /\ (pc' = "tools.initialize" /\ pc' # pc) =>
                (pc = "vector_store.initialize" /\ system'.vector_store.retriever # None)
          /\ (pc' = "workflow_builder.initialize" /\ pc' # pc) =>
                (pc = "tools.initialize" /\ system'.tools.tools # List(<<>>))
          \* the flag is set by the last stage, with everything in place
          /\ (system'.initialized /\ ~system.initialized) =>
                /\ pc = "workflow_builder.initialize"
                /\ system'.vector_store.retriever # None
                /\ system'.tools.tools # List(<<>>)
                /\ system'.graph # None
                /\ fault' = None
          /\ system'.graph # None => system'.initialized
          \* a stage that raises ends the process
          /\ (pc' = "exited" /\ pc' # pc) =>
                /\ pc \in {"config.validate", "vector_store.initialize", "tools.initialize",
                            "workflow_builder.initialize"}
                /\ fault'.type = "SystemExit"
                /\ fault'.code = 1
                /\ fault'.collab = pc
                /\ system' = system
                /\ ~system'.initialized
          /\ pc = "exited" => UNCHANGED vars
          \* the tool list is created only from an existing retriever
          /\ system'.tools.tools # List(<<>>) => system'.vector_store.retriever # None
          /\ (pc' = "raised" /\ pc' # pc /\ fault'.node = "get_tools") =>
                /\ system.vector_store.retriever = None
                /\ fault'.type = "ValueError"
                /\ system'.tools.tools = List(<<>>)
          /\ (pc = "START" /\ system.vector_store.retriever = None) =>
                ~ENABLED (GetTools /\ pc' # "raised")
      ]_vars

\* the process has exited because building the workflow failed, with the
\* retriever and the tools in place
C35_Witness ==
    /\ topology = "agent_first"
    /\ pc = "exited"
    /\ fault = SystemExit("workflow_builder.initialize")
    /\ system.vector_store.retriever # None
    /\ system.tools.tools # List(<<>>)
    /\ ~system.initialized


(***************************************************************************)
(* A sequence of compile(), run() and run_with_details() calls on one      *)
(* AdaptiveRAGWorkflow, from __init__ on.  A call is made when no call is  *)
(* in progress; run() and run_with_details() compile when there is no      *)
(* compiled application and then stream their inputs.  The runs are        *)
(* followed with a retriever that returns at most one document and         *)
(* graders that answer 'yes' or 'no'.                                      *)
(***************************************************************************)
\* the model follows this many calls on one workflow object
MaxCalls == 3

NoCallInProgress == pc \in {"idle", "returned", "raised"}

InitCalls ==
    /\ topology = "router_first"
    /\ system = AdaptiveRAGWorkflow
    /\ inputs = None
    /\ state = None
    /\ pc = "idle"
    /\ trace = <<>>
    /\ calls = <<>>
    /\ final_state = None
    /\ final_answer = None
    /\ returned = None
    /\ generated = None
    /\ fault = None
    /\ batch = NoBatch
    /\ agent_nodes_tools = None
    /\ other = NoRun
    /\ execution_trace = None

CallCompile ==
    /\ topology = "router_first" /\ NoCallInProgress
    /\ system.called < MaxCalls
    /\ system' = [AdaptiveRAGWorkflow_compile(system) EXCEPT !.called = @ + 1]
    /\ UNCHANGED <<topology, state, pc, trace, calls, final_state, final_answer, returned,
                   generated, fault, agent_nodes_tools, other, execution_trace, inputs, batch>>

\* run() or run_with_details() up to the loop over the stream
CallStream(trace_list) ==
    /\ topology = "router_first" /\ NoCallInProgress
    /\ system.called < MaxCalls
    /\ system' = [AdaptiveRAGWorkflow_compile(system) EXCEPT !.called = @ + 1]
    /\ \E question \in UserQuestions : inputs' = [question |-> question]
    /\ state' = inputs'
    /\ pc' = "START"
    /\ trace' = <<>>
    /\ calls' = <<>>
    /\ final_state' = None
    /\ returned' = None
    /\ generated' = None
    /\ fault' = None
    /\ execution_trace' = trace_list
    /\ UNCHANGED <<topology, final_answer, agent_nodes_tools, other, batch>>

CallRun == CallStream(None)

CallRunWithDetails == CallStream(List(<<>>))

CallsRetrieve == RetrieveOn(SeqsUpTo(Documents, 1))

CallsGradeDocuments == GradeDocumentsOn(SeqsUpTo({"yes", "no"}, 1))

CallsGenerate == GenerateOn({"yes", "no"}, {"yes", "no"})

NextCalls ==
    \/ CallCompile
    \/ CallRun
    \/ CallRunWithDetails
    \/ Start
    \/ WebSearch
    \/ CallsRetrieve
    \/ CallsGradeDocuments
    \/ TransformQuery
    \/ CallsGenerate
    \/ Run
    \/ RunWithDetails
    \/ Raise

SpecCalls == InitCalls /\ [][NextCalls]_vars

(***************************************************************************)
(* C37.  compile() is idempotent: over a sequence of compile(), run() and  *)
(* run_with_details() calls on one workflow object the graph is built and  *)
(* compiled at most once, and every call after the first uses the          *)
(* application that the first call compiled.                               *)
(***************************************************************************)
C37_CompiledOnce ==
    [][topology = "router_first" =>
          /\ system'.compiled <= 1
          \* the first call compiles, whichever of the three it is
          /\ (system.called = 0 /\ system'.called = 1) =>
                /\ system.app = None
                /\ system'.app = CompiledStateGraph(1)
                /\ system'.compiled = 1
          \* every later call finds the application and leaves it
          /\ (system.called >= 1 /\ system'.called = system.called + 1) =>
                /\ system.app = CompiledStateGraph(1)
                /\ system'.app = system.app
                /\ system'.compiled = system.compiled
          \* nothing else touches it, and a run streams it
          /\ system'.called = system.called => system' = system
          /\ pc' \notin {"idle", "returned", "raised"} => system'.app = CompiledStateGraph(1)
      ]_vars

\* the third call on the object, a run_with_details() after a compile() and
\* another call, has returned
C37_Witness ==
    /\ topology = "router_first"
    /\ system.called = 3
    /\ system.compiled = 1
    /\ system.app = CompiledStateGraph(1)
    /\ pc = "returned"
    /\ execution_trace # None
    /\ Len(trace) >= 3


(***************************************************************************)
(* AgenticRAGSystem.batch_query(questions): one query() for each question  *)
(* of the list, each followed through the agent-first graph; the answer,   *)
(* or the text made of the exception, is stored under the question.        *)
(***************************************************************************)
\* the lists handed to batch_query have at most this many questions
MaxQuestions == 2

BatchQuestions == UserQuestions \cup OtherQuestions

\* f"... {e}", the entry made of an exception
Failure(e) == [type |-> "str", content |-> "failed", error |-> e.type]

\* results[question] = value
SetItem(results, question, value) == Merge(results, [q \in {question} |-> value])

\* the except branch as it would be if it gave up the rest of the list
batch_query_except_stops(b, e) == [b EXCEPT !.attempted = b.questions]

\* except Exception as e: results[question] = f"... {e}"
batch_query_except(b, e) ==
    [b EXCEPT !.results = SetItem(b.results, Last(b.attempted), Failure(e))]

InitBatch ==
    /\ topology = "agent_first"
    /\ system \in {Initialized, NotInitialized}
    /\ inputs = None
    /\ state = None
    /\ pc = "idle"
    /\ trace = <<>>
    /\ calls = <<>>
    /\ final_state = None
    /\ final_answer = None
    /\ returned = None
    /\ generated = None
    /\ fault = None
    /\ batch = NoBatch
    /\ agent_nodes_tools = None
    /\ other = NoRun
    /\ execution_trace = None

\* batch_query(questions) is called: results = {}
BatchQuery ==
    /\ topology = "agent_first" /\ pc = "idle"
    /\ \E questions \in SeqsUpTo(BatchQuestions, MaxQuestions) :
          batch' = [questions |-> questions, attempted |-> <<>>,
                    results |-> [q \in {} |-> None], pc |-> "for"]
    /\ pc' = "for"
    /\ UNCHANGED <<topology, state, trace, calls, final_state, final_answer, returned,
                   generated, fault, agent_nodes_tools, other, execution_trace, system,
                   inputs>>

\* the loop takes the next question and calls query(question)
BatchTry ==
    /\ topology = "agent_first" /\ pc = "for"
    /\ Len(batch.attempted) < Len(batch.questions)
    /\ LET question == batch.questions[Len(batch.attempted) + 1]
       IN  /\ batch' = [batch EXCEPT !.attempted = Append(@, question)]
           /\ inputs' = [messages |-> <<HumanMessage(question)>>]
    /\ state' = inputs'
    /\ pc' = "START"
    /\ trace' = <<>>
    /\ calls' = <<>>
    /\ final_answer' = None
    /\ returned' = None
    /\ generated' = None
    /\ fault' = None
    /\ UNCHANGED <<topology, final_state, agent_nodes_tools, other, execution_trace,
                   system>>

\* the call of query() is over: its local variables, and the value or the
\* exception that left it, are no more
QueryLocalsGone ==
    /\ inputs' = None
    /\ state' = None
    /\ trace' = <<>>
    /\ calls' = <<>>
    /\ final_answer' = None
    /\ returned' = None
    /\ generated' = None
    /\ fault' = None

\* query() has returned: results[question] = answer
BatchAnswer ==
    /\ topology = "agent_first" /\ pc = "returned"
    /\ batch.pc = "for"
    /\ batch' = [batch EXCEPT !.results = SetItem(@, Last(batch.attempted), returned)]
    /\ pc' = "for"
    /\ QueryLocalsGone
    /\ UNCHANGED <<topology, final_state, agent_nodes_tools, other, execution_trace, system>>

\* query() has raised an Exception; the user's interrupt is none and leaves
\* batch_query
BatchExcept ==
    /\ topology = "agent_first" /\ pc = "raised"
    /\ batch.pc = "for"
    /\ batch.attempted # <<>>
    /\ fault.type # "KeyboardInterrupt"
    /\ batch' = batch_query_except(batch, fault)
    /\ pc' = "for"
    /\ QueryLocalsGone
    /\ UNCHANGED <<topology, final_state, agent_nodes_tools, other, execution_trace, system>>

\* the list is exhausted: return results
BatchReturn ==
    /\ topology = "agent_first" /\ pc = "for"
    /\ Len(batch.attempted) >= Len(batch.questions)
    /\ batch' = [batch EXCEPT !.pc = "returned"]
    /\ returned' = batch.results
    /\ pc' = "batch_returned"
    /\ UNCHANGED <<topology, state, trace, calls, final_state, final_answer,
                   generated, fault, agent_nodes_tools, other, execution_trace, system,
                   inputs>>

NextBatch ==
    \/ BatchQuery
    \/ BatchTry
    \/ BatchAnswer
    \/ BatchExcept
    \/ BatchReturn
    \/ QueryNotInitialized
    \/ AgentStart
    \/ Agent
    \/ AgentRetrieve
    \/ AgentRewrite
    \/ AgentGenerate
    \/ Query
    \/ Raise
    \/ KeyboardInterrupt

SpecBatch == InitBatch /\ [][NextBatch]_vars


(***************************************************************************)
(* C36.  batch_query attempts each question of the list once, in list      *)
(* order; an exception raised while a question is processed becomes that   *)
(* question's failure entry and the loop goes on with the next question;   *)
(* the mapping returned has an entry for every distinct question of the    *)
(* list.                                                                   *)
(***************************************************************************)
Attempted(b) == {b.attempted[i] : i \in 1..Len(b.attempted)}

C36_BatchQuery ==
    [][(topology = "agent_first" /\ batch.pc = "for") =>
          /\ batch'.questions = batch.questions
          \* the attempts are the list, in its order, one question at a time
          /\ Len(batch'.attempted) <= Len(batch.questions)
          /\ \A i \in 1..Len(batch'.attempted) : batch'.attempted[i] = batch.questions[i]
          /\ \/ batch'.attempted = batch.attempted
             \/ /\ Len(batch'.attempted) = Len(batch.attempted) + 1
                /\ pc = "for"
                /\ pc' = "START"
                /\ inputs' = [messages |-> <<HumanMessage(Last(batch'.attempted))>>]
          /\ (pc = "for" /\ Len(batch.attempted) < Len(batch.questions)) => ENABLED BatchTry
          \* what a query returns is the entry of its question
          /\ (pc = "returned" /\ pc' # pc) =>
                /\ pc' = "for"
                /\ batch'.results = SetItem(batch.results, Last(batch.attempted), returned)
          \* an exception is recorded and the loop goes on
          /\ (pc = "raised" /\ fault.type # "KeyboardInterrupt") => ENABLED BatchExcept
          /\ (pc = "raised" /\ pc' # pc) =>
                /\ fault.type \in {"Exception", "ValueError"}
                /\ pc' = "for"
                /\ batch'.results =
                      SetItem(batch.results, Last(batch.attempted), Failure(fault))
          \* at the head of the loop every question attempted has its entry
          /\ pc' = "for" => DOMAIN batch'.results = Attempted(batch')
          /\ pc \notin {"returned", "raised"} => batch'.results = batch.results
          \* the mapping returned
          /\ (pc = "for" /\ Len(batch.attempted) = Len(batch.questions)) => ENABLED BatchReturn
          /\ pc' = "batch_returned" =>
                /\ batch'.attempted = batch.questions
                /\ returned' = batch.results
                /\ DOMAIN returned' = {batch.questions[i] : i \in 1..Len(batch.questions)}
      ]_vars

\* a list of two questions: the query for the first raised, the query for
\* the second returned the answer of its generate step
C36_Witness ==
    /\ topology = "agent_first"
    /\ pc = "batch_returned"
    /\ batch.questions = <<"q0", "q2">>
    /\ DOMAIN returned = {"q0", "q2"}
    /\ returned["q0"].content = "failed"
    /\ returned["q0"] = Failure([type |-> "Exception"])
    /\ returned["q2"] = Str("a1")

====
